---- MODULE Spec2Model ----
(***************************************************************************)
(* Model of do_diarization (src/modal/pyannote_diarization.py): the audio *)
(* is decoded into a temporary WAV file, the diarization pipeline is run, *)
(* its turns are parsed into segments, sorted by start, merged into a     *)
(* speaker timeline, and per-speaker statistics are computed.             *)
(*                                                                         *)
(* Time is counted in ticks of 0.0001 s, so that round(x, 3) and           *)
(* round(x, 2) are roundings to multiples of 10 and of 100 ticks.          *)
(* Percentages are counted in tenths of a percent.                         *)
(***************************************************************************)
EXTENDS Integers, Sequences, FiniteSets

VARIABLES
    pc,             \* the position of do_diarization in its body
    temp_exists,    \* the temporary WAV file exists on disk
    duration,       \* len(audio_data) / sr
    diarization,    \* the turns the pipeline returned, in itertracks order
    segments,       \* the parsed (then sorted) segments
    speakers,       \* the set of speakers seen while parsing
    idx,            \* the position of `for seg in segments`
    current,        \* the open timeline segment, or None
    timeline,       \* the closed timeline segments
    speaker_stats,  \* the per-speaker statistics
    error,          \* str(e) of the exception caught
    result,         \* the dictionary returned, None while running
    other,          \* the locals of a second, concurrent call of do_diarization
    tr,             \* the call of do_transcription: its position and locals
    al,             \* the call of do_alignment: its position, error, result
    ep              \* the call of an HTTP endpoint: request, position, response

vars == <<pc, temp_exists, duration, diarization, segments, speakers,
          idx, current, timeline, speaker_stats, error, result, other, tr, al,
          ep>>

(* ---------------------------- constants ------------------------------ *)

\* the merge threshold 0.5 s of the timeline loop, in ticks
GapTolerance == 5000

\* round(x, 3): one millisecond, in ticks
Milli == 10

\* round(x, 2): one hundredth of a second, in ticks
Centi == 100

\* round(total_time / duration * 100, 1): tenths of a percent in the whole
PerMille == 1000

(* ------------------------------ bounds ------------------------------- *)

\* the longest turn list the pipeline returns, on the coarse grid
MaxTurns == 3

\* the longest turn list the pipeline returns, on the fine grid
MaxFineTurns == 2

\* the coarse grid: steps of half the gap tolerance, up to twice the tolerance
GridStep == GapTolerance \div 2

GridTimes == {k * GridStep : k \in 0..((2 * GapTolerance) \div GridStep)}

\* the fine grid: two grid points displaced by fractions of a millisecond
Jitter == {0, 4, 8}

FineTimes == {t + j : t \in {0, GridStep}, j \in Jitter}

SpeakerLabels == {"SPEAKER_00", "SPEAKER_01"}

None == [none |-> TRUE]

(* ------------------------------ helpers ------------------------------ *)

SetMax(S) == CHOOSE x \in S : \A y \in S : y <= x

\* the turns (speaker, start, end) with start < end over the time points T
TurnsOver(T) ==
    {[speaker |-> s, start |-> p[1], end |-> p[2]] :
        s \in SpeakerLabels, p \in {q \in T \X T : q[1] < q[2]}}

SeqsUpTo(S, n) == UNION {[1..k -> S] : k \in 0..n}

CoarseInputs == SeqsUpTo(TurnsOver(GridTimes), MaxTurns)

FineInputs == SeqsUpTo(TurnsOver(FineTimes), MaxFineTurns)

\* Python round(): to the nearest multiple of u, a tie to the even multiple
RoundHalfEven(x, u) ==
    LET q == x \div u
        r == x % u
    IN  IF 2 * r < u THEN q * u
        ELSE IF 2 * r > u THEN (q + 1) * u
        ELSE IF q % 2 = 0 THEN q * u ELSE (q + 1) * u

\* mutant of RoundTo: truncation
RoundDown(x, u) == (x \div u) * u

RoundTo(x, u) == RoundHalfEven(x, u)

\* round(n / d, 0) for d > 0
RoundRatio(n, d) ==
    LET q == n \div d
        r == n % d
    IN  IF 2 * r < d THEN q
        ELSE IF 2 * r > d THEN q + 1
        ELSE IF q % 2 = 0 THEN q ELSE q + 1

RECURSIVE SumSeq(_)
SumSeq(s) == IF s = <<>> THEN 0 ELSE Head(s) + SumSeq(Tail(s))

(* ---------------------- parsing the pipeline output ------------------ *)

\* one iteration of the itertracks loop: the segment appended for a turn
ParseTurn(turn) ==
    [speaker  |-> turn.speaker,
     start    |-> RoundTo(turn.start, Milli),
     end      |-> RoundTo(turn.end, Milli),
     duration |-> RoundTo(turn.end - turn.start, Milli)]

ParseSegments(turns) == [i \in 1..Len(turns) |-> ParseTurn(turns[i])]

\* mutant of ParseSpeakers: every known label is taken as observed
AllLabels(turns) == SpeakerLabels

ParseSpeakers(turns) == {turns[i].speaker : i \in 1..Len(turns)}

(* ------------------------------ sorting ------------------------------ *)

\* mutant of InsertByStart: x goes before the elements of equal start
RECURSIVE InsertBeforeEqual(_, _)
InsertBeforeEqual(sorted, x) ==
    IF sorted = <<>> THEN <<x>>
    ELSE IF Head(sorted).start < x.start
         THEN <<Head(sorted)>> \o InsertBeforeEqual(Tail(sorted), x)
         ELSE <<x>> \o sorted

\* insert x after every element whose start is <= x.start (stable)
RECURSIVE InsertByStart(_, _)
InsertByStart(sorted, x) ==
    IF sorted = <<>> THEN <<x>>
    ELSE IF Head(sorted).start <= x.start
         THEN <<Head(sorted)>> \o InsertByStart(Tail(sorted), x)
         ELSE <<x>> \o sorted

RECURSIVE StableSort(_, _)
StableSort(seq, acc) ==
    IF seq = <<>> THEN acc
    ELSE StableSort(Tail(seq), InsertByStart(acc, Head(seq)))

\* mutant of SortByStart: the list is left in arrival order
Unsorted(seq) == seq

\* segments.sort(key=lambda x: x["start"])
SortByStart(seq) == StableSort(seq, <<>>)

(* ------------------------- the timeline loop ------------------------- *)

\* mutant of MergeCond: a gap of exactly the tolerance is merged too
MergeCondInclusive(cur, seg) ==
    cur.speaker = seg.speaker /\ seg.start - cur.end <= GapTolerance

\* mutant of MergeCond: the gap is measured from the open segment's start
MergeCondFromStart(cur, seg) ==
    cur.speaker = seg.speaker /\ seg.start - cur.start < GapTolerance

\* mutant of MergeCond: the speakers are not compared
MergeCondAnyLabel(cur, seg) == seg.start - cur.end < GapTolerance

\* the elif condition: same speaker and gap < 0.5 s
MergeCond(cur, seg) ==
    cur.speaker = seg.speaker /\ seg.start - cur.end < GapTolerance

\* the merge branch: end replaced, duration recomputed
MergeInto(cur, seg) ==
    [cur EXCEPT !.end = seg.end,
                !.duration = RoundTo(seg.end - cur.start, Milli)]

\* mutant of LoopBody: an open segment overlapped by an interval of another
\* label is cut at the interval's start before it is closed
LoopBodyTrimming(cur, tl, seg) ==
    IF cur = None THEN [current |-> seg, timeline |-> tl]
    ELSE IF MergeCond(cur, seg)
         THEN [current |-> MergeInto(cur, seg), timeline |-> tl]
         ELSE [current |-> seg,
               timeline |->
                   Append(tl, IF seg.start < cur.end
                              THEN [cur EXCEPT !.end = seg.start]
                              ELSE cur)]

\* one iteration of `for seg in segments`, on the pair (current, timeline)
LoopBody(cur, tl, seg) ==
    IF cur = None THEN [current |-> seg, timeline |-> tl]
    ELSE IF MergeCond(cur, seg)
         THEN [current |-> MergeInto(cur, seg), timeline |-> tl]
         ELSE [current |-> seg, timeline |-> Append(tl, cur)]

\* mutant of LoopExit: the final append is missing
LoopExitNoAppend(cur, tl) == tl

\* `if current: timeline.append(current)`
LoopExit(cur, tl) == IF cur # None THEN Append(tl, cur) ELSE tl

RECURSIVE LoopFrom(_, _, _)
LoopFrom(segs, cur, tl) ==
    IF segs = <<>> THEN LoopExit(cur, tl)
    ELSE LET s == LoopBody(cur, tl, Head(segs))
         IN  LoopFrom(Tail(segs), s.current, s.timeline)

\* the timeline built from a list of segments: sort, loop, final append
TimelineOf(segs) == LoopFrom(SortByStart(segs), None, <<>>)

(* ------------------------- speaker statistics ------------------------ *)

\* mutant of SpeakerSegments: the comprehension's filter is dropped
AllSegments(segs, speaker) == segs

\* [s for s in segments if s["speaker"] == speaker]
SpeakerSegments(segs, speaker) ==
    LET mine(s) == s.speaker = speaker IN SelectSeq(segs, mine)

\* sum(s["duration"] for s in speaker_segments)
TotalTime(segs) == SumSeq([i \in 1..Len(segs) |-> segs[i].duration])

SpeakerStat(segs, speaker, dur) ==
    LET own == SpeakerSegments(segs, speaker)
        total_time == TotalTime(own)
    IN  [total_time     |-> RoundTo(total_time, Centi),
         percentage     |-> RoundRatio(total_time * PerMille, dur),
         segments_count |-> Len(own)]

(* ------------------------------- state ------------------------------- *)

\* the locals of a call of do_diarization that has not begun
FreshLocals ==
    [pc |-> "start", temp_exists |-> FALSE, duration |-> 0,
     diarization |-> <<>>, segments |-> <<>>, speakers |-> {}, idx |-> 0,
     current |-> None, timeline |-> <<>>, speaker_stats |-> <<>>,
     error |-> "", result |-> None]

\* a call of do_alignment that has not begun
FreshCall == [pc |-> "start", error |-> "", result |-> None]

\* current_segment = {"text": "", "start": 0, "end": 0, "words": []}; the text
\* is held as the list of the words joined into it, "" being the empty list
EmptySegment == [text |-> <<>>, start |-> 0, end |-> 0, words |-> <<>>]

\* a call of do_transcription that has not begun
FreshTranscription ==
    [pc |-> "start", error |-> "", result |-> None, chunks |-> <<>>,
     word_timestamps |-> <<>>, segments |-> <<>>,
     current_segment |-> EmptySegment, widx |-> 0]

\* no request has been received
FreshEndpoint ==
    [pc |-> "idle", name |-> "", request |-> <<>>, audio |-> "none",
     calls |-> 0, i |-> 0, alignments |-> <<>>, results |-> <<>>,
     error |-> "", response |-> None]

Init ==
    /\ pc = "start"
    /\ temp_exists = FALSE
    /\ duration = 0
    /\ diarization = <<>>
    /\ segments = <<>>
    /\ speakers = {}
    /\ idx = 0
    /\ current = None
    /\ timeline = <<>>
    /\ speaker_stats = <<>>
    /\ error = ""
    /\ result = None
    /\ other = FreshLocals
    /\ tr = FreshTranscription
    /\ al = FreshCall
    /\ ep = FreshEndpoint

\* tempfile.NamedTemporaryFile(suffix=".wav", delete=False)
CreateTemp ==
    /\ pc = "start"
    /\ temp_exists' = TRUE
    /\ pc' = "decode"
    /\ UNCHANGED <<other, tr, al, ep, duration, diarization, segments, speakers, idx, current,
                   timeline, speaker_stats, error, result>>

\* sf.read, mono, resample, sf.write; duration = len(audio_data) / sr
DecodeAudio(lengths) ==
    /\ pc = "decode"
    /\ \E d \in lengths : duration' = d
    /\ pc' = "load"
    /\ UNCHANGED <<other, tr, al, ep, temp_exists, diarization, segments, speakers, idx, current,
                   timeline, speaker_stats, error, result>>

\* Pipeline.from_pretrained(...); pipeline.to(device)
LoadPipeline ==
    /\ pc = "load"
    /\ pc' = "run"
    /\ UNCHANGED <<other, tr, al, ep, temp_exists, duration, diarization, segments, speakers, idx,
                   current, timeline, speaker_stats, error, result>>

\* diarization = pipeline(temp_path, **diarization_params)
RunPipeline(inputs) ==
    /\ pc = "run"
    /\ \E turns \in inputs : diarization' = turns
    /\ pc' = "unlink"
    /\ UNCHANGED <<other, tr, al, ep, temp_exists, duration, segments, speakers, idx, current,
                   timeline, speaker_stats, error, result>>

\* an exception raised by the audio decoding, the model loading or the pipeline
Raise ==
    /\ pc \in {"decode", "load", "run"}
    /\ error' = pc
    /\ pc' = "except"
    /\ UNCHANGED <<other, tr, al, ep, temp_exists, duration, diarization, segments, speakers, idx,
                   current, timeline, speaker_stats, result>>

\* os.unlink(temp_path)
Unlink ==
    /\ pc = "unlink"
    /\ temp_exists' = FALSE
    /\ pc' = "parse"
    /\ UNCHANGED <<other, tr, al, ep, duration, diarization, segments, speakers, idx, current,
                   timeline, speaker_stats, error, result>>

\* for turn, _, speaker in diarization.itertracks(yield_label=True)
Parse ==
    /\ pc = "parse"
    /\ segments' = ParseSegments(diarization)
    /\ speakers' = ParseSpeakers(diarization)
    /\ pc' = "sort"
    /\ UNCHANGED <<other, tr, al, ep, temp_exists, duration, diarization, idx, current, timeline,
                   speaker_stats, error, result>>

\* segments.sort(...); timeline = []; current = None
Sort ==
    /\ pc = "sort"
    /\ segments' = SortByStart(segments)
    /\ timeline' = <<>>
    /\ current' = None
    /\ idx' = 1
    /\ pc' = "merge"
    /\ UNCHANGED <<other, tr, al, ep, temp_exists, duration, diarization, speakers, speaker_stats,
                   error, result>>

\* mutant of MergeStep: current is the list's own entry, not a copy of it,
\* so that a merge writes into the entry the open segment was opened from
MergeStepAliased ==
    /\ pc = "merge"
    /\ idx <= Len(segments)
    /\ LET s == LoopBody(current, timeline, segments[idx])
       IN  /\ current' = s.current
           /\ timeline' = s.timeline
           /\ segments' =
                  IF current # None /\ MergeCond(current, segments[idx])
                  THEN [segments EXCEPT
                           ![CHOOSE j \in 1..(idx - 1) : segments[j] = current]
                               = s.current]
                  ELSE segments
    /\ idx' = idx + 1
    /\ UNCHANGED <<other, tr, al, ep, pc, temp_exists, duration, diarization,
                   speakers, speaker_stats, error, result>>

\* one iteration of `for seg in segments`
MergeStep ==
    /\ pc = "merge"
    /\ idx <= Len(segments)
    /\ LET s == LoopBody(current, timeline, segments[idx])
       IN  /\ current' = s.current
           /\ timeline' = s.timeline
    /\ idx' = idx + 1
    /\ UNCHANGED <<other, tr, al, ep, pc, temp_exists, duration, diarization, segments, speakers,
                   speaker_stats, error, result>>

\* the loop is exhausted: `if current: timeline.append(current)`
FinishTimeline ==
    /\ pc = "merge"
    /\ idx > Len(segments)
    /\ timeline' = LoopExit(current, timeline)
    /\ pc' = "stats"
    /\ UNCHANGED <<other, tr, al, ep, temp_exists, duration, diarization, segments, speakers, idx,
                   current, speaker_stats, error, result>>

\* mutant of Stats: the statistics loop stands outside the try block, so the
\* division by zero leaves the function as an exception nothing catches
StatsOutsideTry ==
    /\ pc = "stats"
    /\ IF speakers # {} /\ duration = 0
       THEN /\ error' = "float division by zero"
            /\ pc' = "crashed"
            /\ UNCHANGED speaker_stats
       ELSE /\ speaker_stats' =
                  [s \in speakers |-> SpeakerStat(segments, s, duration)]
            /\ pc' = "return"
            /\ UNCHANGED error
    /\ UNCHANGED <<other, tr, al, ep, temp_exists, duration, diarization, segments,
                   speakers, idx, current, timeline, result>>

\* for speaker in speakers: ...; total_time / duration raises when duration is 0
Stats ==
    /\ pc = "stats"
    /\ IF speakers # {} /\ duration = 0
       THEN /\ error' = "float division by zero"
            /\ pc' = "except"
            /\ UNCHANGED speaker_stats
       ELSE /\ speaker_stats' =
                  [s \in speakers |-> SpeakerStat(segments, s, duration)]
            /\ pc' = "return"
            /\ UNCHANGED error
    /\ UNCHANGED <<other, tr, al, ep, temp_exists, duration, diarization, segments, speakers, idx,
                   current, timeline, result>>

\* return {"success": True, ...}
Return ==
    /\ pc = "return"
    /\ result' = [success       |-> TRUE,
                  speakers      |-> speakers,
                  num_speakers  |-> Cardinality(speakers),
                  segments      |-> segments,
                  timeline      |-> timeline,
                  speaker_stats |-> speaker_stats,
                  duration      |-> RoundTo(duration, Centi)]
    /\ pc' = "done"
    /\ UNCHANGED <<other, tr, al, ep, temp_exists, duration, diarization, segments, speakers, idx,
                   current, timeline, speaker_stats, error>>

\* mutant of ReturnError: the handler swallows the exception
ReturnErrorAsSuccess ==
    /\ pc = "except"
    /\ result' = [success |-> TRUE, error |-> error]
    /\ pc' = "done"
    /\ UNCHANGED <<other, tr, al, ep, temp_exists, duration, diarization, segments,
                   speakers, idx, current, timeline, speaker_stats, error>>

\* except Exception as e: return {"success": False, "error": str(e), ...}
ReturnError ==
    /\ pc = "except"
    /\ result' = [success |-> FALSE, error |-> error]
    /\ pc' = "done"
    /\ UNCHANGED <<other, tr, al, ep, temp_exists, duration, diarization, segments, speakers, idx,
                   current, timeline, speaker_stats, error>>

NextOver(lengths, inputs) ==
    \/ CreateTemp
    \/ DecodeAudio(lengths)
    \/ LoadPipeline
    \/ RunPipeline(inputs)
    \/ Raise
    \/ Unlink
    \/ Parse
    \/ Sort
    \/ MergeStep
    \/ FinishTimeline
    \/ Stats
    \/ Return
    \/ ReturnError

\* audio lengths: no samples, or as long as the grid
CoarseLengths == {0, SetMax(GridTimes)}

FineLengths == {0, SetMax(FineTimes)}

Next == NextOver(CoarseLengths, CoarseInputs)

NextFine == NextOver(FineLengths, FineInputs)

\* turns on the coarse grid: gaps below, at and above the tolerance
Spec == Init /\ [][Next]_vars

\* turns on the fine grid: the roundings act
SpecFine == Init /\ [][NextFine]_vars

(* -------------------- two concurrent diarizations -------------------- *)

\* the locals of the call that is running
Locals ==
    [pc |-> pc, temp_exists |-> temp_exists, duration |-> duration,
     diarization |-> diarization, segments |-> segments,
     speakers |-> speakers, idx |-> idx, current |-> current,
     timeline |-> timeline, speaker_stats |-> speaker_stats,
     error |-> error, result |-> result]

\* mutant of Switch: timeline is one list shared by the two calls
SwitchSharingTimeline ==
    /\ other' = [Locals EXCEPT !.timeline = other.timeline]
    /\ pc' = other.pc
    /\ temp_exists' = other.temp_exists
    /\ duration' = other.duration
    /\ diarization' = other.diarization
    /\ segments' = other.segments
    /\ speakers' = other.speakers
    /\ idx' = other.idx
    /\ current' = other.current
    /\ timeline' = timeline
    /\ speaker_stats' = other.speaker_stats
    /\ error' = other.error
    /\ result' = other.result
    /\ UNCHANGED <<tr, al, ep>>

\* the scheduler suspends the running call and resumes the other one; every
\* name do_diarization assigns is a local of the call (its temporary file
\* has a name of its own), so each call finds its locals as it left them
Switch ==
    /\ other' = Locals
    /\ pc' = other.pc
    /\ temp_exists' = other.temp_exists
    /\ duration' = other.duration
    /\ diarization' = other.diarization
    /\ segments' = other.segments
    /\ speakers' = other.speakers
    /\ idx' = other.idx
    /\ current' = other.current
    /\ timeline' = other.timeline
    /\ speaker_stats' = other.speaker_stats
    /\ error' = other.error
    /\ result' = other.result
    /\ UNCHANGED <<tr, al, ep>>

\* the longest turn list of each of the two concurrent calls
MaxReentrantTurns == 2

ReentrantTimes == {0, GridStep}

ReentrantInputs == SeqsUpTo(TurnsOver(ReentrantTimes), MaxReentrantTurns)

ReentrantLengths == {0, SetMax(ReentrantTimes)}

NextReentrant ==
    \/ NextOver(ReentrantLengths, ReentrantInputs)
    \/ Switch

\* two calls of do_diarization, interleaved step by step
SpecReentrant == Init /\ [][NextReentrant]_vars

(* ------------------ do_transcription and do_alignment ---------------- *)

dvars == <<pc, temp_exists, duration, diarization, segments, speakers,
           idx, current, timeline, speaker_stats, error, result, other>>

\* the chunk has no start or no end time (None)
NoTime == -1

\* segment_duration = 30 seconds, in ticks
SegmentDuration == 300000

\* the length 0.1 s given to a word without end time, in ticks
DefaultWordLength == 1000

\* the filler patterns among the words of the model
Fillers == {"hum"}

\* the word_data of a chunk whose stripped text is not empty
WordOf(chunk) ==
    LET start == IF chunk.timestamp[1] # NoTime
                 THEN chunk.timestamp[1] ELSE 0
        end == IF chunk.timestamp[2] # NoTime
               THEN chunk.timestamp[2] ELSE start + DefaultWordLength
        word_data == [word  |-> chunk.text,
                      start |-> RoundTo(start, Milli),
                      end   |-> RoundTo(end, Milli)]
    IN  IF chunk.text \in Fillers
        THEN [word  |-> word_data.word, start |-> word_data.start,
              end   |-> word_data.end, is_filler |-> TRUE]
        ELSE word_data

\* `for chunk in result["chunks"]`: chunks of empty text are skipped
RECURSIVE WordsOf(_)
WordsOf(chunks) ==
    IF chunks = <<>> THEN <<>>
    ELSE IF Head(chunks).text = "" THEN WordsOf(Tail(chunks))
    ELSE <<WordOf(Head(chunks))>> \o WordsOf(Tail(chunks))

\* the first five lines of the body of `for wt in word_timestamps`
AddWord(cs, wt) ==
    [text  |-> Append(cs.text, wt.word),
     start |-> IF cs.text = <<>> THEN wt.start ELSE cs.start,
     end   |-> wt.end,
     words |-> Append(cs.words, wt)]

\* mutant of ThresholdReached: a span of exactly 30 s does not close
ThresholdExceeded(seg) == seg.end - seg.start > SegmentDuration

\* wt["end"] - current_segment["start"] >= segment_duration
ThresholdReached(seg) == seg.end - seg.start >= SegmentDuration

\* mutant of WithLastSegment: the words after the last closing are lost
LastSegmentDropped(cs, segs) == segs

\* the segments with the segment still open after the loop, if it has text
WithLastSegment(cs, segs) ==
    IF cs.text # <<>> THEN Append(segs, cs) ELSE segs

\* do_transcription: sf.read, mono, resample
TrDecode ==
    /\ tr.pc = "start"
    /\ tr' = [tr EXCEPT !.pc = "load"]
    /\ UNCHANGED <<dvars, al, ep>>

\* do_transcription: the model, the processor and the pipeline are created
TrLoad ==
    /\ tr.pc = "load"
    /\ tr' = [tr EXCEPT !.pc = "run"]
    /\ UNCHANGED <<dvars, al, ep>>

\* do_transcription: result = pipe(..., return_timestamps="word")
TrRun(inputs) ==
    /\ tr.pc = "run"
    /\ \E c \in inputs : tr' = [tr EXCEPT !.chunks = c, !.pc = "format"]
    /\ UNCHANGED <<dvars, al, ep>>

\* do_transcription: the chunk loop builds word_timestamps
TrFormat ==
    /\ tr.pc = "format"
    /\ tr' = [tr EXCEPT !.word_timestamps = WordsOf(tr.chunks),
                        !.segments = <<>>,
                        !.current_segment = EmptySegment,
                        !.widx = 1,
                        !.pc = "group"]
    /\ UNCHANGED <<dvars, al, ep>>

\* do_transcription: one iteration of `for wt in word_timestamps`
TrGroupStep ==
    /\ tr.pc = "group"
    /\ tr.widx <= Len(tr.word_timestamps)
    /\ LET added == AddWord(tr.current_segment, tr.word_timestamps[tr.widx])
       IN  tr' = IF ThresholdReached(added)
                 THEN [tr EXCEPT !.segments = Append(@, added),
                                 !.current_segment = EmptySegment,
                                 !.widx = @ + 1]
                 ELSE [tr EXCEPT !.current_segment = added,
                                 !.widx = @ + 1]
    /\ UNCHANGED <<dvars, al, ep>>

\* do_transcription: `if current_segment["text"]: segments.append(...)`
TrGroupFinish ==
    /\ tr.pc = "group"
    /\ tr.widx > Len(tr.word_timestamps)
    /\ tr' = [tr EXCEPT
                 !.segments = WithLastSegment(tr.current_segment, @),
                 !.pc = "return"]
    /\ UNCHANGED <<dvars, al, ep>>

\* do_transcription: a statement of the try block raises
TrRaise ==
    /\ tr.pc \in {"start", "load", "run", "format"}
    /\ tr' = [tr EXCEPT !.error = tr.pc, !.pc = "except"]
    /\ UNCHANGED <<dvars, al, ep>>

\* do_transcription: return {"success": True, ...}
TrReturn ==
    /\ tr.pc = "return"
    /\ tr' = [tr EXCEPT
                 !.result = [success         |-> TRUE,
                             segments        |-> tr.segments,
                             word_timestamps |-> tr.word_timestamps],
                 !.pc = "done"]
    /\ UNCHANGED <<dvars, al, ep>>

\* do_transcription: except Exception as e: return {"success": False, ...}
TrReturnError ==
    /\ tr.pc = "except"
    /\ tr' = [tr EXCEPT !.result = [success |-> FALSE, error |-> tr.error],
                        !.pc = "done"]
    /\ UNCHANGED <<dvars, al, ep>>

\* do_alignment: sf.read, tensor, mono, resample
AlDecode ==
    /\ al.pc = "start"
    /\ al' = [al EXCEPT !.pc = "load"]
    /\ UNCHANGED <<dvars, tr, ep>>

\* do_alignment: load_alignment_model
AlLoad ==
    /\ al.pc = "load"
    /\ al' = [al EXCEPT !.pc = "emit"]
    /\ UNCHANGED <<dvars, tr, ep>>

\* do_alignment: generate_emissions
AlEmit ==
    /\ al.pc = "emit"
    /\ al' = [al EXCEPT !.pc = "align"]
    /\ UNCHANGED <<dvars, tr, ep>>

\* do_alignment: preprocess_text, get_alignments, get_spans
AlAlign ==
    /\ al.pc = "align"
    /\ al' = [al EXCEPT !.pc = "format"]
    /\ UNCHANGED <<dvars, tr, ep>>

\* do_alignment: the word timestamps are built
AlFormat ==
    /\ al.pc = "format"
    /\ al' = [al EXCEPT !.pc = "return"]
    /\ UNCHANGED <<dvars, tr, ep>>

\* do_alignment: a statement of the try block raises
AlRaise ==
    /\ al.pc \in {"start", "load", "emit", "align", "format"}
    /\ al' = [al EXCEPT !.error = al.pc, !.pc = "except"]
    /\ UNCHANGED <<dvars, tr, ep>>

\* do_alignment: return {"success": True, ...}
AlReturn ==
    /\ al.pc = "return"
    /\ al' = [al EXCEPT !.result = [success |-> TRUE], !.pc = "done"]
    /\ UNCHANGED <<dvars, tr, ep>>

\* do_alignment: except Exception as e: return {"success": False, ...}
AlReturnError ==
    /\ al.pc = "except"
    /\ al' = [al EXCEPT !.result = [success |-> FALSE, error |-> al.error,
                                    word_timestamps |-> <<>>],
                        !.pc = "done"]
    /\ UNCHANGED <<dvars, tr, ep>>

\* the texts of the chunks: empty once stripped, a word, a filler
ChunkTexts == {"", "oi", "hum"}

\* the (start, end) of the chunks: half a segment, an end that rounds up to
\* the threshold, an end on it, a start on it, no times, no end time
ChunkTimes ==
    LET half == SegmentDuration \div 2
    IN  {<<0, half>>, <<half, SegmentDuration - SetMax(Jitter) \div 2>>,
         <<half, SegmentDuration>>, <<SegmentDuration, SegmentDuration + half>>,
         <<NoTime, NoTime>>, <<SegmentDuration + half, NoTime>>}

MaxChunks == 3

ChunkInputs ==
    SeqsUpTo({[text |-> x, timestamp |-> p] :
                  x \in ChunkTexts, p \in ChunkTimes}, MaxChunks)

NextWords ==
    \/ TrDecode \/ TrLoad \/ TrRun(ChunkInputs) \/ TrFormat \/ TrGroupStep
    \/ TrGroupFinish \/ TrRaise \/ TrReturn \/ TrReturnError

\* one call of do_transcription over every chunk list of the bound
SpecWords == Init /\ [][NextWords]_vars

\* what the speech pipeline returns in the joint run of the three operations
OpsChunks ==
    {<<>>, <<[text |-> "oi", timestamp |-> <<0, SegmentDuration>>],
             [text |-> "hum", timestamp |-> <<SegmentDuration, NoTime>>]>>}

NextOps ==
    \/ NextOver(ReentrantLengths, ReentrantInputs)
    \/ TrDecode \/ TrLoad \/ TrRun(OpsChunks) \/ TrFormat \/ TrGroupStep
    \/ TrGroupFinish \/ TrRaise \/ TrReturn \/ TrReturnError
    \/ AlDecode \/ AlLoad \/ AlEmit \/ AlAlign \/ AlFormat \/ AlRaise
    \/ AlReturn \/ AlReturnError

\* one call of each of do_diarization, do_transcription and do_alignment
SpecOps == Init /\ [][NextOps]_vars

(* ------------------------- the HTTP endpoints ------------------------ *)

\* the variables of the three operations
ovars == <<dvars, tr, al>>

Endpoints == {"diarize", "transcribe", "align", "align_segments"}

MaxSegments == 2

\* the starts of the segments of a request: 0, 1 s, and 1 s off the millisecond
SegmentStarts == {0, 2 * GapTolerance, 2 * GapTolerance + SetMax(Jitter) \div 2}

\* the segments of a request: {start, end, text}, alone or with a
\* word_timestamps field of their own
SegmentValues ==
    {[start |-> s, end |-> s + 2 * GapTolerance, text |-> "oi"] :
         s \in SegmentStarts}
    \cup {[start |-> s, end |-> s + 2 * GapTolerance, text |-> "oi",
           word_timestamps |-> <<"stale">>] : s \in SegmentStarts}

\* the requests made of the endpoint name; audio_url is a key of the request
\* or not, audio_base64 is absent, decodable or not decodable
Requests(name) ==
    {[audio_url |-> u, audio_base64 |-> b, transcript |-> x, segments |-> s] :
        u \in {"absent", "present"},
        b \in {"absent", "valid", "invalid"},
        x \in IF name = "align" THEN {"", " ", "oi"} ELSE {""},
        s \in IF name = "align_segments"
              THEN SeqsUpTo(SegmentValues, MaxSegments) ELSE {<<>>}}

\* transcript.strip()
Strip(text) == IF text = " " THEN "" ELSE text

\* the words do_alignment returns, with times relative to the audio it got
AlignedWords ==
    LET w1 == [word |-> "oi", start |-> 0, end |-> GapTolerance, score |-> 1]
        w2 == [word |-> "la", start |-> GapTolerance,
               end |-> 2 * GapTolerance, score |-> 1]
    IN  {<<>>, <<w1>>, <<w1, w2>>}

\* what a call of do_diarization, do_transcription or do_alignment returns
CallOutcomes ==
    {[success |-> TRUE, word_timestamps |-> w] : w \in AlignedWords}
    \cup {[success |-> FALSE, error |-> "align", word_timestamps |-> <<>>]}

\* {**a, **b}: the keys of both, the values of b where both have the key
Merged(a, b) ==
    [k \in DOMAIN a \cup DOMAIN b |-> IF k \in DOMAIN b THEN b[k] ELSE a[k]]

\* mutant of ShiftWord: the times stay relative to the segment
ShiftWordRelative(segment, wt) ==
    [word |-> wt.word, start |-> wt.start, end |-> wt.end,
     score |-> wt.score]

\* the word timestamp appended for wt: shifted by the segment's start
ShiftWord(segment, wt) ==
    [word  |-> wt.word,
     start |-> RoundTo(segment.start + wt.start, Milli),
     end   |-> RoundTo(segment.start + wt.end, Milli),
     score |-> wt.score]

\* the entry of results for a segment and what do_alignment returned for it
SegmentResult(segment, alignment) ==
    IF alignment.success
    THEN Merged(segment,
                [word_timestamps |->
                    [j \in 1..Len(alignment.word_timestamps) |->
                        ShiftWord(segment, alignment.word_timestamps[j])]])
    ELSE Merged(segment, [word_timestamps |-> <<>>,
                          alignment_error |-> alignment.error])

\* a POST request reaches one of the endpoints
EpRequest ==
    /\ ep.pc = "idle"
    /\ \E name \in Endpoints : \E r \in Requests(name) :
           ep' = [ep EXCEPT !.name = name, !.request = r, !.pc = "audio"]
    /\ UNCHANGED ovars

\* if "audio_url" in request: urlopen(...).read(), or the handler's return
EpFetch ==
    /\ ep.pc = "audio"
    /\ ep.request.audio_url = "present"
    /\ \/ ep' = [ep EXCEPT !.audio = "ok", !.pc = "params"]
       \/ ep' = [ep EXCEPT
                    !.audio = "fetch failed",
                    !.response = [success |-> FALSE,
                                  error |-> "Failed to fetch audio"],
                    !.pc = "done"]
    /\ UNCHANGED ovars

\* elif "audio_base64" in request: b64decode, or the handler's return
EpDecodeBase64 ==
    /\ ep.pc = "audio"
    /\ ep.request.audio_url = "absent"
    /\ ep.request.audio_base64 # "absent"
    /\ ep' = IF ep.request.audio_base64 = "valid"
             THEN [ep EXCEPT !.audio = "ok", !.pc = "params"]
             ELSE [ep EXCEPT
                      !.audio = "decode failed",
                      !.response = [success |-> FALSE,
                                    error |-> "Failed to decode base64"],
                      !.pc = "done"]
    /\ UNCHANGED ovars

\* mutant of EpReject: without audio the endpoint goes on
EpRejectSkipped ==
    /\ ep.pc = "audio"
    /\ ep.request.audio_url = "absent"
    /\ ep.request.audio_base64 = "absent"
    /\ ep' = [ep EXCEPT !.pc = "params"]
    /\ UNCHANGED ovars

\* else: return {"success": False, "error": "Must provide ..."}
EpReject ==
    /\ ep.pc = "audio"
    /\ ep.request.audio_url = "absent"
    /\ ep.request.audio_base64 = "absent"
    /\ ep' = [ep EXCEPT
                 !.response =
                     [success |-> FALSE,
                      error |-> "Must provide audio_url or audio_base64"],
                 !.pc = "done"]
    /\ UNCHANGED ovars

\* the parameters are read from the request; align and align_segments return
\* when the transcript or the segments are empty
EpParams ==
    /\ ep.pc = "params"
    /\ ep' =
         IF ep.name = "align" /\ Strip(ep.request.transcript) = ""
         THEN [ep EXCEPT !.response = [success |-> FALSE,
                                       error |-> "Transcript is empty"],
                         !.pc = "done"]
         ELSE IF ep.name = "align_segments" /\ ep.request.segments = <<>>
         THEN [ep EXCEPT !.response = [success |-> FALSE,
                                       error |-> "No segments provided"],
                         !.pc = "done"]
         ELSE IF ep.name = "align_segments"
         THEN [ep EXCEPT !.pc = "decode"]
         ELSE [ep EXCEPT !.pc = "call"]
    /\ UNCHANGED ovars

\* return do_diarization(...) / do_transcription(...) / do_alignment(...)
EpCall ==
    /\ ep.pc = "call"
    /\ \E r \in CallOutcomes :
           ep' = [ep EXCEPT !.calls = @ + 1, !.response = r, !.pc = "done"]
    /\ UNCHANGED ovars

\* align_segments: sf.read, mono, resample; results = []
SgDecode ==
    /\ ep.pc = "decode"
    /\ ep' = [ep EXCEPT !.i = 1, !.results = <<>>, !.pc = "loop"]
    /\ UNCHANGED ovars

\* align_segments: one iteration of `for segment in segments`
SgStep ==
    /\ ep.pc = "loop"
    /\ ep.i <= Len(ep.request.segments)
    /\ \E alignment \in CallOutcomes :
           ep' = [ep EXCEPT
                     !.calls = @ + 1,
                     !.alignments = Append(@, alignment),
                     !.results =
                         Append(@, SegmentResult(ep.request.segments[ep.i],
                                                 alignment)),
                     !.i = @ + 1]
    /\ UNCHANGED ovars

\* align_segments: a statement of the try block outside do_alignment raises
\* (the audio cannot be read, a segment cannot be cut), and the handler returns
SgRaise ==
    /\ \/ ep.pc = "decode"
       \/ ep.pc = "loop" /\ ep.i <= Len(ep.request.segments)
    /\ ep' = [ep EXCEPT !.error = ep.pc,
                        !.response = [success |-> FALSE, error |-> ep.pc],
                        !.pc = "done"]
    /\ UNCHANGED ovars

\* align_segments: return {"success": True, "segments": results}
SgReturn ==
    /\ ep.pc = "loop"
    /\ ep.i > Len(ep.request.segments)
    /\ ep' = [ep EXCEPT
                 !.response = [success |-> TRUE, segments |-> ep.results],
                 !.pc = "done"]
    /\ UNCHANGED ovars

NextEndpoints ==
    \/ EpRequest \/ EpFetch \/ EpDecodeBase64 \/ EpReject \/ EpParams
    \/ EpCall \/ SgDecode \/ SgStep \/ SgRaise \/ SgReturn

\* one request to one of the four endpoints
SpecEndpoints == Init /\ [][NextEndpoints]_vars

(* --------------------------- the properties -------------------------- *)

\* do_diarization has returned the success dictionary
Succeeded == pc = "done" /\ result.success

\* the loop is about to process segments[idx] with a segment open
AtOpenIteration == pc = "merge" /\ idx <= Len(segments) /\ current # None

\* C1: in the timeline loop the next interval is merged into the open segment
\* (nothing is appended, the open segment keeps its label and start) if and
\* only if it has the open segment's label and starts less than the gap
\* tolerance after the open segment's end; otherwise the open segment is
\* appended to the timeline and a new one is opened from the interval.
C1_MergeIffSameLabelWithinTolerance ==
    [][AtOpenIteration =>
        LET seg == segments[idx]
        IN  IF current.speaker = seg.speaker
               /\ seg.start - current.end < GapTolerance
            THEN /\ timeline' = timeline
                 /\ current'.speaker = current.speaker
                 /\ current'.start = current.start
            ELSE /\ timeline' = Append(timeline, current)
                 /\ current' = seg]_vars

\* three intervals processed: one merged, one closed at a gap of exactly
\* the tolerance before a segment of the same label
C1_Witness ==
    /\ pc = "merge" /\ idx = 4
    /\ Len(timeline) = 1
    /\ current # None
    /\ timeline[1].speaker = current.speaker
    /\ current.start - timeline[1].end = GapTolerance

\* C2: when an interval is merged into the open segment, the segment's end
\* becomes max(current.end, interval.end), never a smaller value.
C2_MergedEndIsMax ==
    [][(AtOpenIteration /\ MergeCond(current, segments[idx])) =>
        /\ current'.end >= current.end
        /\ current'.end >= segments[idx].end]_vars

\* the timeline is in non-decreasing start order
SortedByStart(tl) ==
    \A i, j \in 1..Len(tl) : i < j => tl[i].start <= tl[j].start

\* no two segments of the timeline overlap
NonOverlapping(tl) ==
    \A i, j \in 1..Len(tl) : i < j => tl[i].end <= tl[j].start

\* no interval starts before the end of a differently-labelled interval
\* that precedes it in the (sorted) list
NoCrossLabelOverlap(segs) ==
    \A i, j \in 1..Len(segs) :
        (i < j /\ segs[i].speaker # segs[j].speaker)
            => segs[i].end <= segs[j].start

\* C3 as stated: for every input the timeline is in non-decreasing start
\* order and mutually non-overlapping.
C3_SortedAndNonOverlapping ==
    Succeeded =>
        SortedByStart(result.timeline) /\ NonOverlapping(result.timeline)

\* C3, amended: for every input the timeline is in non-decreasing start
\* order and two consecutive segments of the same label do not overlap; the
\* timeline is mutually non-overlapping whenever no interval starts before
\* the end of a differently-labelled interval preceding it in start order.
C3_SortedAndDisjointUnlessCrossLabel ==
    Succeeded =>
        LET tl == result.timeline
        IN  /\ SortedByStart(tl)
            /\ \A i \in 1..(Len(tl) - 1) :
                   tl[i].speaker = tl[i + 1].speaker
                       => tl[i].end <= tl[i + 1].start
            /\ NoCrossLabelOverlap(result.segments) => NonOverlapping(tl)

\* the turns arrived out of order and three disjoint segments came out
C3_Witness ==
    /\ Succeeded
    /\ result.segments # ParseSegments(diarization)
    /\ Len(result.timeline) = 3
    /\ NoCrossLabelOverlap(result.segments)

\* C4: the timeline loop is idempotent: the timeline built from the timeline
\* (its segments taken as the intervals) is the timeline itself.
C4_Idempotent ==
    Succeeded => TimelineOf(result.timeline) = result.timeline

\* a timeline of two segments, one of them merged from two intervals
C4_Witness ==
    /\ Succeeded
    /\ Len(result.segments) = 3
    /\ Len(result.timeline) = 2

\* C5: no two consecutive segments of the timeline have the same label and
\* a gap below the gap tolerance.
C5_NoMergeablePairLeft ==
    Succeeded =>
        LET tl == result.timeline
        IN  \A i \in 1..(Len(tl) - 1) :
                ~(/\ tl[i].speaker = tl[i + 1].speaker
                  /\ tl[i + 1].start - tl[i].end < GapTolerance)

\* two consecutive segments of one label, exactly the tolerance apart
C5_Witness ==
    /\ Succeeded
    /\ Len(result.timeline) = 2
    /\ result.timeline[1].speaker = result.timeline[2].speaker
    /\ result.timeline[2].start - result.timeline[1].end = GapTolerance

\* the summed lengths end - start of a list of segments
SpanSum(segs) == SumSeq([i \in 1..Len(segs) |-> segs[i].end - segs[i].start])

\* C6 as stated: the durations of the timeline sum to at most the durations
\* of the intervals, and to exactly as much when no two intervals overlap.
C6_NoFabricatedTime ==
    Succeeded =>
        /\ TotalTime(result.timeline) <= TotalTime(result.segments)
        /\ NonOverlapping(result.segments)
               => TotalTime(result.timeline) = TotalTime(result.segments)

\* C6, amended: with lengths measured as end - start, the timeline sums to
\* what the intervals sum to when nothing was merged, and to less than that
\* plus one gap tolerance per merge otherwise (a merge adds the bridged gap);
\* when no two intervals overlap it sums to at least what the intervals do.
C6_GrowthBelowToleranceInMerges ==
    Succeeded =>
        LET merges == Len(result.segments) - Len(result.timeline)
            out == SpanSum(result.timeline)
            in == SpanSum(result.segments)
        IN  /\ merges >= 0
            /\ merges = 0 => out = in
            /\ merges > 0 => out < in + merges * GapTolerance
            /\ NonOverlapping(result.segments) => out >= in

\* two disjoint intervals merged across a positive gap: time was added
C6_Witness ==
    /\ Succeeded
    /\ Len(result.segments) = 2
    /\ Len(result.timeline) = 1
    /\ NonOverlapping(result.segments)
    /\ SpanSum(result.timeline) > SpanSum(result.segments)

RECURSIVE SumCounts(_, _)
SumCounts(stats, S) ==
    IF S = {} THEN 0
    ELSE LET s == CHOOSE x \in S : TRUE
         IN  stats[s].segments_count + SumCounts(stats, S \ {s})

\* C7: the segments_count entries of speaker_stats sum to the number of
\* intervals.
C7_CountsSumToIntervals ==
    Succeeded =>
        SumCounts(result.speaker_stats, DOMAIN result.speaker_stats)
            = Len(result.segments)

\* three intervals shared by two speakers
C7_Witness ==
    /\ Succeeded
    /\ Len(result.segments) = 3
    /\ Cardinality(DOMAIN result.speaker_stats) = 2

Abs(x) == IF x < 0 THEN -x ELSE x

\* the positions of a speaker's intervals
OwnIndices(segs, s) == {i \in 1..Len(segs) : segs[i].speaker = s}

RECURSIVE SumAt(_, _, _)
SumAt(f, segs, I) ==
    IF I = {} THEN 0
    ELSE LET i == CHOOSE x \in I : TRUE
         IN  (IF f = "span" THEN segs[i].end - segs[i].start
              ELSE segs[i].duration) + SumAt(f, segs, I \ {i})

C9_OneEntryPerObservedLabel ==
    Succeeded =>
        /\ DOMAIN result.speaker_stats
               = {result.segments[i].speaker :
                      i \in 1..Len(result.segments)}
        /\ \A s \in DOMAIN result.speaker_stats :
               result.speaker_stats[s].segments_count >= 1

\* several intervals, all of one speaker: the other label has no entry
C9_Witness ==
    /\ Succeeded
    /\ Len(result.segments) = 3
    /\ Cardinality(DOMAIN result.speaker_stats) = 1

\* C10: with a total duration <= 0 the statistics never come back as a
\* successful result, whatever the intervals (the empty list included).
C10_NonPositiveDurationFails ==
    (pc = "done" /\ result.success) => duration > 0

\* C11: no interval with end <= start reaches the timeline loop or the
\* statistics, and none is among the segments the timeline holds.
C11_NoEmptyInterval ==
    /\ pc \in {"merge", "stats", "return"} =>
           \A i \in 1..Len(segments) : segments[i].end > segments[i].start
    /\ \A i \in 1..Len(timeline) : timeline[i].end > timeline[i].start

\* the intervals are a single one whose rounded end equals its rounded start
ZeroLengthSingle ==
    /\ Len(segments) = 1
    /\ segments[1].end = segments[1].start

\* C12: a single interval with end = start never ends the call in an arithmetic
\* error nothing handles: every position before the return has a next step,
\* and the call returns either the failure record of the handler or a
\* successful result with the one segment and the one statistics entry.
C12_ZeroLengthHandled ==
    ZeroLengthSingle =>
        /\ pc # "done" => ENABLED NextFine
        /\ pc = "done" =>
               IF duration = 0
               THEN result = [success |-> FALSE,
                              error |-> "float division by zero"]
               ELSE /\ result.success
                    /\ result.timeline = segments
                    /\ DOMAIN result.speaker_stats = {segments[1].speaker}
                    /\ result.speaker_stats[segments[1].speaker].segments_count
                           = 1

\* the division by zero happened on a zero-length interval and was returned
\* as a failure record
C12_Witness ==
    /\ ZeroLengthSingle
    /\ pc = "done"
    /\ duration = 0
    /\ ~result.success

\* a call at position p with pending exception text e and return value r
\* reports a failure as success = false with the text, and nothing else so
Surfaced(p, e, r) ==
    p = "done" =>
        IF e # "" THEN r.success = FALSE /\ r.error = e
        ELSE r.success = TRUE

C14_CrossLabelOverlapKept ==
    [][pc = "merge" =>
        /\ Len(timeline') >= Len(timeline)
        /\ \A i \in 1..Len(timeline) : timeline'[i] = timeline[i]
        /\ (/\ AtOpenIteration
            /\ segments[idx].speaker # current.speaker
            /\ segments[idx].start < current.end)
               => /\ timeline' = Append(timeline, current)
                  /\ current'.speaker = segments[idx].speaker
                  /\ current'.start = segments[idx].start
                  /\ current'.end = segments[idx].end]_vars

\* the run returned two segments of different labels that overlap in time,
\* each with the bounds of its interval
C14_Witness ==
    /\ Succeeded
    /\ Len(result.segments) = 2
    /\ result.timeline = result.segments
    /\ result.timeline[1].speaker # result.timeline[2].speaker
    /\ result.timeline[2].start < result.timeline[1].end
    /\ result.timeline[1].start < result.timeline[2].start

\* what a call returns for the pipeline output turns and the audio length dur,
\* as a function of the two
ResultOf(turns, dur) ==
    LET segs == SortByStart(ParseSegments(turns))
        spk == ParseSpeakers(turns)
    IN  IF spk # {} /\ dur = 0
        THEN [success |-> FALSE, error |-> "float division by zero"]
        ELSE [success       |-> TRUE,
              speakers      |-> spk,
              num_speakers  |-> Cardinality(spk),
              segments      |-> segs,
              timeline      |-> TimelineOf(ParseSegments(turns)),
              speaker_stats |-> [s \in spk |-> SpeakerStat(segs, s, dur)],
              duration      |-> RoundTo(dur, Centi)]

\* the call with locals l has returned and its audio and models had loaded
Aggregated(l) == l.pc = "done" /\ l.error \notin {"decode", "load", "run"}

\* C15: whatever the interleaving of two calls, what each returns is a
\* function of its own intervals and audio length alone; two calls with the
\* same input therefore return the same segments, timeline and statistics.
C15_Reentrant ==
    /\ Aggregated(Locals) => result = ResultOf(diarization, duration)
    /\ Aggregated(other) =>
           other.result = ResultOf(other.diarization, other.duration)
    /\ (/\ Aggregated(Locals) /\ Aggregated(other)
        /\ diarization = other.diarization /\ duration = other.duration)
           => result = other.result

\* both calls have returned timelines, and different ones
C15_Witness ==
    /\ Aggregated(Locals) /\ result.success
    /\ Aggregated(other) /\ other.result.success
    /\ Len(result.timeline) = 2 /\ Len(other.result.timeline) = 1
    /\ Len(other.result.segments) = 2

\* the elements of segs that start at t, in their order in segs
StartingAt(segs, t) ==
    LET here(s) == s.start = t IN SelectSeq(segs, here)

\* C16: once sorted, the segments are in ascending order of start, and those
\* of equal start stand in the order in which the pipeline produced them, which
\* is the order in which the timeline loop then takes them.
C16_SortIsStable ==
    ((pc = "merge" /\ idx = 1) \/ Succeeded) =>
        /\ SortedByStart(segments)
        /\ \A t \in {segments[i].start : i \in 1..Len(segments)} :
               StartingAt(segments, t)
                   = StartingAt(ParseSegments(diarization), t)

\* the sort moved an interval and left two different intervals of equal start
\* in arrival order
C16_Witness ==
    /\ Succeeded
    /\ result.segments # ParseSegments(diarization)
    /\ \E i \in 1..(Len(result.segments) - 1) :
           /\ result.segments[i].start = result.segments[i + 1].start
           /\ result.segments[i] # result.segments[i + 1]

RECURSIVE SumTotals(_, _)
SumTotals(stats, S) ==
    IF S = {} THEN 0
    ELSE LET s == CHOOSE x \in S : TRUE
         IN  stats[s].total_time + SumTotals(stats, S \ {s})

\* C17 as stated: for every input the reported totals of all labels sum to at
\* most the audio duration.
C17_TotalsWithinDuration ==
    Succeeded =>
        SumTotals(result.speaker_stats, DOMAIN result.speaker_stats)
            <= duration

\* the turns lie within the audio and no two of them overlap
DisjointWithin(turns, dur) ==
    /\ \A i \in 1..Len(turns) : turns[i].end <= dur
    /\ \A i, j \in 1..Len(turns) :
           i # j => (turns[i].end <= turns[j].start
                        \/ turns[j].end <= turns[i].start)

\* C17 as the code has it: when the turns lie within the audio and do not
\* overlap one another, the reported totals sum to at most the audio duration
\* plus the roundings, 0.0005 s for each interval and 0.005 s for each label.
C17_TotalsWithinDurationIfDisjoint ==
    (Succeeded /\ DisjointWithin(diarization, duration)) =>
        2 * SumTotals(result.speaker_stats, DOMAIN result.speaker_stats)
            <= 2 * duration + Milli * Len(diarization)
                   + Centi * Cardinality(DOMAIN result.speaker_stats)

\* two turns of two speakers, one after the other, within the audio
C17_Witness ==
    /\ Succeeded
    /\ DisjointWithin(diarization, duration)
    /\ Len(diarization) = 2
    /\ Cardinality(DOMAIN result.speaker_stats) = 2
    /\ SumTotals(result.speaker_stats, DOMAIN result.speaker_stats) > 0

RECURSIVE RawSum(_, _)
RawSum(turns, I) ==
    IF I = {} THEN 0
    ELSE LET i == CHOOSE x \in I : TRUE
         IN  (turns[i].end - turns[i].start) + RawSum(turns, I \ {i})

\* C18: each label's reported total is the sum of the unrounded lengths of its
\* turns, rounded to 3 decimals, and its percentage is derived from that
\* unrounded sum and rounded to 1 decimal.
C18_RoundingOnlyAtOutput ==
    Succeeded =>
        \A s \in DOMAIN result.speaker_stats :
            LET raw == RawSum(diarization, OwnIndices(diarization, s))
            IN  /\ result.speaker_stats[s].total_time = RoundTo(raw, Milli)
                /\ result.speaker_stats[s].percentage
                       = RoundRatio(raw * PerMille, duration)

\* the timeline loop and the statistics have run
PastTimeline == pc \in {"stats", "return", "except", "done"}

\* C19: no intervals give an empty timeline and empty statistics; exactly one
\* interval gives a timeline of exactly one segment with that interval's
\* label, start and end.
C19_EmptyAndSingle ==
    /\ (PastTimeline /\ Len(segments) = 0) => timeline = <<>>
    /\ (pc \in {"return", "done"} /\ Len(segments) = 0 /\ error = "")
           => DOMAIN speaker_stats = {}
    /\ (PastTimeline /\ Len(segments) = 1) =>
           /\ Len(timeline) = 1
           /\ timeline[1].speaker = segments[1].speaker
           /\ timeline[1].start = segments[1].start
           /\ timeline[1].end = segments[1].end

\* a run over exactly one interval has returned
C19_Witness ==
    /\ Succeeded
    /\ Len(diarization) = 1
    /\ Len(result.timeline) = 1
    /\ Cardinality(DOMAIN result.speaker_stats) = 1

\* C20: the returned raw segments are the parsed turns in sorted order, as
\* they were before the timeline loop, and each label's count and total are
\* those of its raw segments.
C20_RawSegmentsUntouched ==
    Succeeded =>
        /\ result.segments = SortByStart(ParseSegments(diarization))
        /\ \A s \in DOMAIN result.speaker_stats :
               LET own == OwnIndices(result.segments, s)
                   st == result.speaker_stats[s]
               IN  /\ st.segments_count = Cardinality(own)
                   /\ 2 * Abs(st.total_time
                                - SumAt("duration", result.segments, own))
                          <= Centi

\* a merge extended the open segment past the raw segment it was copied from
C20_Witness ==
    /\ Succeeded
    /\ Len(result.segments) = 2
    /\ Len(result.timeline) = 1
    /\ result.timeline[1].end > result.segments[1].end
    /\ result.timeline[1].start = result.segments[1].start

\* C21: every segment of the timeline has duration = end - start, those that
\* absorbed further intervals and those copied from a single interval alike.
C21_DurationIsEndMinusStart ==
    Succeeded =>
        \A i \in 1..Len(result.timeline) :
            result.timeline[i].duration
                = result.timeline[i].end - result.timeline[i].start

\* C22: whenever do_diarization has returned, with a result or with a failure
\* record, the temporary WAV file no longer exists.
C22_TempFileDeleted == pc = "done" => ~temp_exists

\* the ways of assigning n intervals, in order, to m consecutive non-empty runs
RunMaps(n, m) ==
    {f \in [1..n -> 1..m] :
        /\ \A i, j \in 1..n : i < j => f[i] <= f[j]
        /\ \A k \in 1..m : \E i \in 1..n : f[i] = k}

\* the least element of a non-empty set of numbers
SetMin(S) == CHOOSE x \in S : \A y \in S : x <= y

\* C24: the timeline partitions the sorted intervals into consecutive runs:
\* each interval belongs to exactly one segment, a segment has the label of
\* every interval of its run and the start of the first of them, and there
\* are no more segments than intervals.
C24_TimelineIsPartitionIntoRuns ==
    Succeeded =>
        LET segs == result.segments
            tl == result.timeline
        IN  /\ Len(tl) <= Len(segs)
            /\ \E f \in RunMaps(Len(segs), Len(tl)) :
                   /\ \A i \in 1..Len(segs) :
                          segs[i].speaker = tl[f[i]].speaker
                   /\ \A k \in 1..Len(tl) :
                          tl[k].start
                              = segs[SetMin({i \in 1..Len(segs) :
                                                f[i] = k})].start

\* three intervals in two runs, the first of two intervals
C24_Witness ==
    /\ Succeeded
    /\ Len(result.segments) = 3
    /\ Len(result.timeline) = 2
    /\ result.segments[2].speaker = result.timeline[1].speaker
    /\ result.segments[3].speaker = result.timeline[2].speaker
    /\ result.segments[2].start > result.segments[1].start

\* C28: a successful result is consistent: num_speakers counts speakers, the
\* statistics have exactly the speakers as keys, every raw and every timeline
\* segment names a speaker of the list, and every speaker has a raw segment.
C28_ResultIsConsistent ==
    Succeeded =>
        /\ result.num_speakers = Cardinality(result.speakers)
        /\ DOMAIN result.speaker_stats = result.speakers
        /\ \A i \in 1..Len(result.segments) :
               result.segments[i].speaker \in result.speakers
        /\ \A i \in 1..Len(result.timeline) :
               result.timeline[i].speaker \in result.speakers
        /\ \A s \in result.speakers :
               \E i \in 1..Len(result.segments) :
                   result.segments[i].speaker = s

\* two speakers alternate over three segments, none merged
C28_Witness ==
    /\ Succeeded
    /\ result.num_speakers = 2
    /\ Len(result.segments) = 3
    /\ Len(result.timeline) = 3

\* do_transcription has returned a transcription
Transcribed == tr.pc = "done" /\ tr.result.success

RECURSIVE ConcatWords(_)
ConcatWords(segs) ==
    IF segs = <<>> THEN <<>>
    ELSE Head(segs).words \o ConcatWords(Tail(segs))

\* C26: the words lists of the returned segments, concatenated in order, are
\* word_timestamps; no segment is without words; a segment starts at its
\* first word's start and ends at its last word's end.
C26_SegmentsPartitionWords ==
    Transcribed =>
        LET segs == tr.result.segments
        IN  /\ ConcatWords(segs) = tr.result.word_timestamps
            /\ \A k \in 1..Len(segs) :
                   /\ segs[k].words # <<>>
                   /\ segs[k].start = segs[k].words[1].start
                   /\ segs[k].end
                          = segs[k].words[Len(segs[k].words)].end

\* three words in two segments, the first closed by the threshold
C26_Witness ==
    /\ Transcribed
    /\ Len(tr.result.word_timestamps) = 3
    /\ Len(tr.result.segments) = 2
    /\ Len(tr.result.segments[1].words) = 2

\* no word of seg but the last reaches the threshold from the segment's start
ClosedNoLater(seg) ==
    \A j \in 1..(Len(seg.words) - 1) :
        seg.words[j].end - seg.start < SegmentDuration

\* C27: a segment is closed exactly when the end of the word just added is 30 s
\* or more after the segment's start: every segment closed in the loop spans
\* at least 30 s, only the segment appended after the loop may span less, and
\* no segment, closed or open, holds a word after one that reached 30 s.
C27_ClosedExactlyAtThreshold ==
    /\ \A k \in 1..Len(tr.segments) :
           /\ ClosedNoLater(tr.segments[k])
           /\ (k < Len(tr.segments) \/ tr.pc = "group")
                  => tr.segments[k].end - tr.segments[k].start
                         >= SegmentDuration
    /\ tr.pc = "group" =>
           /\ ClosedNoLater(tr.current_segment)
           /\ tr.current_segment.text # <<>> =>
                  tr.current_segment.end - tr.current_segment.start
                      < SegmentDuration

\* a segment was closed by a word ending exactly 30 s after its start, and the
\* word after it went into a new segment that spans less
C27_Witness ==
    /\ Transcribed
    /\ Len(tr.result.segments) = 2
    /\ tr.result.segments[1].end - tr.result.segments[1].start
           = SegmentDuration
    /\ Len(tr.result.segments[1].words) = 2
    /\ tr.result.segments[2].end - tr.result.segments[2].start
           < SegmentDuration

\* C23: a request to any of the four endpoints with neither audio_url nor
\* audio_base64 is answered with success false and the error 'Must provide
\* audio_url or audio_base64'; so is, with success false, a request whose
\* audio cannot be fetched or decoded; in none of these cases is
\* do_diarization, do_transcription or do_alignment called.
C23_NoAudioNoCall ==
    /\ ep.calls > 0 => ep.audio = "ok"
    /\ ep.pc = "done" =>
           /\ (/\ ep.request.audio_url = "absent"
               /\ ep.request.audio_base64 = "absent")
                  => /\ ep.response
                            = [success |-> FALSE,
                               error |->
                                   "Must provide audio_url or audio_base64"]
                     /\ ep.calls = 0
           /\ ep.audio \in {"fetch failed", "decode failed"}
                  => /\ ep.response.success = FALSE
                     /\ ep.calls = 0

\* align_segments has answered a request without audio
C23_Witness ==
    /\ ep.pc = "done"
    /\ ep.name = "align_segments"
    /\ Len(ep.request.segments) = 2
    /\ ep.request.audio_url = "absent"
    /\ ep.request.audio_base64 = "absent"
    /\ ~ep.response.success
    /\ ep.calls = 0

\* align_segments has returned after its loop, no statement of its own raising
SegmentsAnswered ==
    /\ ep.pc = "done"
    /\ ep.name = "align_segments"
    /\ ep.i > 0
    /\ ep.error = ""

\* the result res of a segment whose alignment failed, or succeeded with
\* words shifted as shift(segment, word) says
ResultShape(res, segment, alignment, shift(_, _)) ==
    IF alignment.success
    THEN /\ Len(res.word_timestamps) = Len(alignment.word_timestamps)
         /\ \A j \in 1..Len(res.word_timestamps) :
                LET wt == alignment.word_timestamps[j]
                IN  /\ res.word_timestamps[j].word = wt.word
                    /\ res.word_timestamps[j].start
                           = shift(segment, wt.start)
                    /\ res.word_timestamps[j].end = shift(segment, wt.end)
    ELSE /\ res.word_timestamps = <<>>
         /\ "alignment_error" \in DOMAIN res
         /\ res.alignment_error = alignment.error

====
